---- MODULE Spec2Model ----
(***************************************************************************)
(* DailyInsight: fetch -> store -> analyze -> deliver.                     *)
(* State machine of the storage layer (RawStore, InsightStore), the        *)
(* orchestrators (run_fetch, run_analyze), the email delivery plugin and   *)
(* the pipeline runner (run_daily.main), translated from the Python code.  *)
(***************************************************************************)
EXTENDS Integers, Sequences, FiniteSets, TLC

(* ------------------------------ bounds --------------------------------- *)
\* largest value of the modelled system clock
MaxClock == 1
\* clock ticks per second (stands for the 10^6 microseconds of datetime)
SubSec == 2
\* largest number of rows the model lets raw_items grow to
MaxRaw == 2
\* longest item list a source adapter returns / insert_many receives
MaxFetch == 2
\* largest max_items_per_run a caller passes to run_analyze
MaxItemsPerRun == 2
\* longest list of delivery plugins the configuration loads
MaxPlugins == 2
\* longest recipient list of the model
MaxRecipients == 2
\* largest number of raw rows in the runs that leave a backlog behind
MaxBacklog == 3

(* ------------------------------ values --------------------------------- *)
\* Python None in a string-typed position
NULL == "NULL"
\* Python None in an id-typed position (row ids start at 1)
None == 0

\* since_iso omitted (or empty) in a list_since call
NoSince == -1

Sources == {"arxiv", "rss"}
Urls == {"u1", "u2"}
Titles == {"A", "B"}
Summaries == {"s"}
\* Python values a payload is built from: a str, an int (written by its
\* digits), a list, a tuple, and a dict given by its (key, value) entries in
\* insertion order
PyStr(s) == [t |-> "str", v |-> s]
PyInt(digits) == [t |-> "int", v |-> digits]
PyList(items) == [t |-> "list", v |-> items]
PyTuple(items) == [t |-> "tuple", v |-> items]
PyDict(entries) == [t |-> "dict", v |-> entries]

\* what analyze_one extracts from the model response
Payloads == {PyDict(<<<<PyStr("opportunities"), PyList(<<PyStr("x")>>)>>>>)}

Range(s) == {s[i] : i \in 1..Len(s)}

SeqsUpTo(S, n) == UNION {[1..k -> S] : k \in 0..n}

(* ------------------------------ clock ---------------------------------- *)
\* datetime.utcnow().isoformat() + "Z": the fraction is omitted when the
\* microsecond is 0, so "..:00Z" sorts after every "..:00.ffffffZ" of the
\* same second ('.' < 'Z').  IsoKey(t) is the rank of that text among the
\* texts of all clock values: text order is order of IsoKey.
IsoKey(t) ==
    LET sec == t \div SubSec
        frac == t % SubSec
    IN  sec * SubSec + (IF frac = 0 THEN SubSec - 1 ELSE frac - 1)

(* ------------------------------ RawStore ------------------------------- *)
\* variant: the uniqueness constraint names the url column alone
RawUniqueViolationUrlOnly(rows, url, source) ==
    \E i \in 1..Len(rows) : rows[i].url = url

\* UNIQUE(source, url) of RAW_TABLE
RawUniqueViolation(rows, url, source) ==
    \E i \in 1..Len(rows) : rows[i].source = source /\ rows[i].url = url

\* the NOT NULL column constraints of RAW_TABLE
RawNotNullViolation(title, url, summary, source) ==
    title = NULL \/ url = NULL \/ summary = NULL \/ source = NULL

\* RawStore.insert: the new table contents and the returned id (None when
\* sqlite3.IntegrityError was raised and swallowed)
RawInsert(rows, title, url, summary, source, now) ==
    IF RawNotNullViolation(title, url, summary, source)
          \/ RawUniqueViolation(rows, url, source)
    THEN [rows |-> rows, ret |-> None]
    ELSE [rows |-> Append(rows, [id |-> Len(rows) + 1, title |-> title,
                                 url |-> url, summary |-> summary,
                                 source |-> source, fetched_at |-> now]),
          ret |-> Len(rows) + 1]

\* variant: uniqueness decided by a look at the table when the call
\* begins, and the row written without a constraint
ExecuteInsertReadThenWrite(rows, existedAtBegin, title, url, summary, source, now) ==
    IF existedAtBegin THEN [rows |-> rows, ret |-> None]
    ELSE [rows |-> Append(rows, [id |-> Len(rows) + 1, title |-> title,
                                 url |-> url, summary |-> summary,
                                 source |-> source, fetched_at |-> now]),
          ret |-> Len(rows) + 1]

\* the INSERT statement of RawStore.insert run by one of several writers:
\* rows is the committed table at the time the statement runs, and
\* existedAtBegin tells whether the pair was stored when the call began.
\* The statement checks UNIQUE(source, url) itself, so what the table held
\* when the call began plays no part.
ExecuteInsert(rows, existedAtBegin, title, url, summary, source, now) ==
    RawInsert(rows, title, url, summary, source, now)

\* variant: insert_many counts every item, inserted or not
RECURSIVE InsertManyCountAll(_, _, _, _, _)
InsertManyCountAll(rows, items, source, times, i) ==
    IF i > Len(items) THEN [rows |-> rows, count |-> 0]
    ELSE LET r == RawInsert(rows, items[i].title, items[i].url,
                            items[i].summary, source, times[i])
             rest == InsertManyCountAll(r.rows, items, source, times, i + 1)
         IN  [rows |-> rest.rows, count |-> rest.count + 1]

\* RawStore.insert_many: insert each item in turn, count the truthy returns.
\* times[i] is the clock read by the i-th insert.
RECURSIVE InsertMany(_, _, _, _, _)
InsertMany(rows, items, source, times, i) ==
    IF i > Len(items) THEN [rows |-> rows, count |-> 0]
    ELSE LET r == RawInsert(rows, items[i].title, items[i].url,
                            items[i].summary, source, times[i])
             rest == InsertMany(r.rows, items, source, times, i + 1)
         IN  [rows |-> rest.rows,
              count |-> rest.count + (IF r.ret # None THEN 1 ELSE 0)]

\* RawStore.get_by_id
RawGetById(rows, id) ==
    IF \E i \in 1..Len(rows) : rows[i].id = id
    THEN rows[CHOOSE i \in 1..Len(rows) : rows[i].id = id]
    ELSE [id |-> None]

\* ORDER BY <ts> DESC, ts[r] being the timestamp column of row r: a sequence
\* lists the rows newest text first; rows with equal timestamps may come in
\* any order (the query names no tie-breaker)
IsDescOrder(s, ts) ==
    \A i, j \in 1..Len(s) : i < j => IsoKey(ts[s[i]]) >= IsoKey(ts[s[j]])

Orderings(S, ts) ==
    {s \in [1..Cardinality(S) -> S] :
        /\ \A x \in S : \E i \in 1..Cardinality(S) : s[i] = x
        /\ IsDescOrder(s, ts)}

Take(s, n) == IF Len(s) <= n THEN s ELSE SubSeq(s, 1, n)

FetchedAt(S) == [r \in S |-> r.fetched_at]

\* RawStore.list_since: every result the query may return
RawListSince(rows, since, limit) ==
    LET sel == {r \in Range(rows) :
                   since = NoSince \/ IsoKey(r.fetched_at) >= IsoKey(since)}
    IN  {Take(s, limit) : s \in Orderings(sel, FetchedAt(sel))}

(* ----------------------------- InsightStore ---------------------------- *)
\* json.dumps(data, ensure_ascii=False): the JSON text, given by its syntax
\* tree.  A list and a tuple both become an array; a dict key that is an int
\* becomes the string of its digits.
RECURSIVE JsonDumps(_)
JsonDumps(x) ==
    CASE x.t = "str" -> [j |-> "string", v |-> x.v]
      [] x.t = "int" -> [j |-> "number", v |-> x.v]
      [] x.t \in {"list", "tuple"} ->
            [j |-> "array", v |-> [i \in 1..Len(x.v) |-> JsonDumps(x.v[i])]]
      [] x.t = "dict" ->
            [j |-> "object",
             v |-> [i \in 1..Len(x.v) |->
                       <<x.v[i][1].v, JsonDumps(x.v[i][2])>>]]

\* variant: json.loads that reads an array as a tuple
RECURSIVE JsonDecodeArrayAsTuple(_)
JsonDecodeArrayAsTuple(y) ==
    CASE y.j = "string" -> PyStr(y.v)
      [] y.j = "number" -> PyInt(y.v)
      [] y.j = "array" ->
            PyTuple([i \in 1..Len(y.v) |-> JsonDecodeArrayAsTuple(y.v[i])])
      [] y.j = "object" ->
            PyDict([i \in 1..Len(y.v) |->
                       <<PyStr(y.v[i][1]), JsonDecodeArrayAsTuple(y.v[i][2])>>])

\* json.loads of a JSON text: an array becomes a list, an object a dict with
\* str keys
RECURSIVE JsonDecode(_)
JsonDecode(y) ==
    CASE y.j = "string" -> PyStr(y.v)
      [] y.j = "number" -> PyInt(y.v)
      [] y.j = "array" -> PyList([i \in 1..Len(y.v) |-> JsonDecode(y.v[i])])
      [] y.j = "object" ->
            PyDict([i \in 1..Len(y.v) |->
                       <<PyStr(y.v[i][1]), JsonDecode(y.v[i][2])>>])

\* number of positional parameters of InsightStore.insert besides self:
\* (raw_item_id, data)
InsightInsertArity == 2

\* InsightStore.insert called with the positional arguments args: Python
\* raises TypeError before the body runs when the argument count does not
\* match the signature; otherwise one row is appended and its id returned.
\* The FOREIGN KEY clause of INSIGHT_TABLE is not enforced (sqlite default).
InsightInsert(ins, args, now) ==
    IF Len(args) # InsightInsertArity
    THEN [rows |-> ins, raised |-> TRUE, ret |-> None]
    ELSE [rows |-> Append(ins, [id |-> Len(ins) + 1, raw_item_id |-> args[1],
                                data |-> JsonDumps(args[2]),
                                analyzed_at |-> now]),
          raised |-> FALSE, ret |-> Len(ins) + 1]

\* the Insight object built from a row: data=json.loads(row["data"])
InsightOfRow(row) ==
    [id |-> row.id, raw_item_id |-> row.raw_item_id,
     data |-> JsonDecode(row.data), analyzed_at |-> row.analyzed_at]

\* InsightStore.get_by_id
InsightGetById(ins, id) ==
    IF \E i \in 1..Len(ins) : ins[i].id = id
    THEN InsightOfRow(ins[CHOOSE i \in 1..Len(ins) : ins[i].id = id])
    ELSE [id |-> None]

\* variant: a read that misses the row committed last
GetAnalyzedRawItemIdsStale(ins) ==
    {ins[i].raw_item_id : i \in 1..(Len(ins) - 1)}

\* InsightStore.get_analyzed_raw_item_ids: SELECT DISTINCT raw_item_id
GetAnalyzedRawItemIds(ins) == {ins[i].raw_item_id : i \in 1..Len(ins)}

AnalyzedAt(S) == [r \in S |-> r.analyzed_at]

\* InsightStore.list_since
InsightListSince(ins, since, limit) ==
    LET sel == {InsightOfRow(r) : r \in
                  {q \in Range(ins) :
                      since = NoSince \/ IsoKey(q.analyzed_at) >= IsoKey(since)}}
    IN  {Take(s, limit) : s \in Orderings(sel, AnalyzedAt(sel))}

(* ------------------------------ analyzer ------------------------------- *)
\* api_key = api_key or os.getenv("OPENAI_API_KEY")
ResolveApiKey(arg, env) == IF arg \notin {NULL, ""} THEN arg ELSE env

\* variant: "if api_key is None"
NoApiKeyNoneOnly(key) == key = NULL

\* "if not api_key": None and the empty string are both falsy
NoApiKey(key) == key \in {NULL, ""}

\* variant: the analyzed ids are not filtered out
ToProcessUnfiltered(listed, analyzed_ids, max_items_per_run) ==
    Take(listed, max_items_per_run)

\* variant: the slice is one short, [:max_items_per_run - 1]
ToProcessShort(listed, analyzed_ids, max_items_per_run) ==
    LET Fresh(r) == r.id # None /\ r.id \notin analyzed_ids
    IN  Take(SelectSeq(listed, Fresh), max_items_per_run - 1)

\* to_process = [r for r in raw_items if r.id is not None
\*               and r.id not in analyzed_ids][:max_items_per_run]
ToProcess(listed, analyzed_ids, max_items_per_run) ==
    LET Fresh(r) == r.id # None /\ r.id \notin analyzed_ids
    IN  Take(SelectSeq(listed, Fresh), max_items_per_run)

(* -------------------------- response parsing --------------------------- *)
\* A response text is a sequence of tokens:
\*   "{" "}"   braces              "q"  a double quote
\*   "k"       the key "a":        "o"  the key "opportunities":
\*   "w"       a word of prose     " "  whitespace (blank or newline)
\*   "F"       the fence marker of three backticks
Tokens == {"{", "}", "q", "k", "o", "w", " ", "F"}

\* text.strip()
RECURSIVE StripText(_)
StripText(t) ==
    IF t = <<>> THEN t
    ELSE IF Head(t) = " " THEN StripText(Tail(t))
    ELSE IF t[Len(t)] = " " THEN StripText(SubSeq(t, 1, Len(t) - 1))
    ELSE t

\* text.split(fence): the pieces between the fence markers
RECURSIVE SplitFence(_)
SplitFence(t) ==
    IF \A i \in 1..Len(t) : t[i] # "F" THEN <<t>>
    ELSE LET f == CHOOSE i \in 1..Len(t) :
                     t[i] = "F" /\ \A j \in 1..(i - 1) : t[j] # "F"
         IN  <<SubSeq(t, 1, f - 1)>> \o SplitFence(SubSeq(t, f + 1, Len(t)))

\* the JSON scanner skips whitespace between tokens, not inside a string
RECURSIVE Compact(_, _)
Compact(t, inString) ==
    IF t = <<>> THEN <<>>
    ELSE IF Head(t) = "q" THEN <<"q">> \o Compact(Tail(t), ~inString)
    ELSE IF Head(t) = " " /\ ~inString THEN Compact(Tail(t), inString)
    ELSE <<Head(t)>> \o Compact(Tail(t), inString)

\* a JSON string: a quote, tokens that hold no quote, a quote
IsJsonString(c) ==
    /\ Len(c) >= 2
    /\ c[1] = "q" /\ c[Len(c)] = "q"
    /\ \A i \in 2..(Len(c) - 1) : c[i] \notin {"q", "k", "o"}

\* a JSON value of the token language: a string, the empty object, or an
\* object with one member (a key token followed by a value)
RECURSIVE IsJsonValue(_)
IsJsonValue(c) ==
    \/ IsJsonString(c)
    \/ c = <<"{", "}">>
    \/ /\ Len(c) >= 4
       /\ c[1] = "{" /\ c[Len(c)] = "}"
       /\ c[2] \in {"k", "o"}
       /\ IsJsonValue(SubSeq(c, 3, Len(c) - 1))

\* json.loads(text): the decoded value (its whitespace-free token form), or
\* ok = FALSE for json.JSONDecodeError
JsonLoads(t) ==
    LET c == Compact(t, FALSE)
    IN  IF IsJsonValue(c) THEN [ok |-> TRUE, value |-> c]
        ELSE [ok |-> FALSE, value |-> <<>>]

\* the mapping returned when nothing parses
ParseFallback ==
    [kind |-> "fallback",
     keys |-> {"opportunities", "directions", "innovations"}]

\* "if fence in text": the first piece holding a brace and the word
\* opportunities becomes the text, stripped; otherwise text is unchanged
FenceStep(t) ==
    LET parts == SplitFence(t)
        Hit(i) == (\E j \in 1..Len(parts[i]) : parts[i][j] = "{")
                  /\ (\E j \in 1..Len(parts[i]) : parts[i][j] = "o")
    IN  IF (\E i \in 1..Len(t) : t[i] = "F") /\ (\E i \in 1..Len(parts) : Hit(i))
        THEN StripText(parts[CHOOSE i \in 1..Len(parts) :
                                 Hit(i) /\ \A j \in 1..(i - 1) : ~Hit(j)])
        ELSE t

\* brace depth of text[start..i]
RECURSIVE Depth(_, _, _)
Depth(t, start, i) ==
    IF i < start THEN 0
    ELSE Depth(t, start, i - 1)
            + (IF t[i] = "{" THEN 1 ELSE IF t[i] = "}" THEN -1 ELSE 0)

\* _parse_llm_response
ParseLlmResponse(text) ==
    LET t0 == StripText(text)
        t == FenceStep(t0)
        hasBrace == \E i \in 1..Len(t) : t[i] = "{"
        start == CHOOSE i \in 1..Len(t) :
                     t[i] = "{" /\ \A j \in 1..(i - 1) : t[j] # "{"
        closes == hasBrace /\ \E i \in start..Len(t) : Depth(t, start, i) = 0
        close == CHOOSE i \in start..Len(t) :
                     /\ Depth(t, start, i) = 0
                     /\ \A j \in start..(i - 1) : Depth(t, start, j) # 0
        inner == JsonLoads(SubSeq(t, start, close))
        whole == JsonLoads(t)
    IN  IF closes /\ inner.ok THEN [kind |-> "parsed", value |-> inner.value]
        ELSE IF whole.ok THEN [kind |-> "parsed", value |-> whole.value]
        ELSE ParseFallback

\* the positional arguments run_analyze passes to insight_store.insert
InsertCallArgs(item, payload) ==
    <<item.id, <<payload, "opps">>, <<payload, "dirs">>, <<payload, "inns">>>>

\* variant: the insert is made with (raw_item_id, data), and made twice
ProcessItemTwice(ins, count, item, outcome, payload, now) ==
    IF outcome = "raise"
    THEN [rows |-> ins, count |-> count, written |-> FALSE]
    ELSE LET w1 == InsightInsert(ins, <<item.id, payload>>, now)
             w2 == InsightInsert(w1.rows, <<item.id, payload>>, now)
         IN  [rows |-> w2.rows, count |-> count + 1, written |-> TRUE]

\* body of the per-item try block of run_analyze: analyze_one, then
\* insight_store.insert, then count += 1; any exception is logged and the
\* loop goes on.  outcome is what analyze_one did ("ok" or "raise").
ProcessItem(ins, count, item, outcome, payload, now) ==
    IF outcome = "raise"
    THEN [rows |-> ins, count |-> count, written |-> FALSE]
    ELSE LET w == InsightInsert(ins, InsertCallArgs(item, payload), now)
         IN  IF w.raised
             THEN [rows |-> ins, count |-> count, written |-> FALSE]
             ELSE [rows |-> w.rows, count |-> count + 1, written |-> TRUE]

(* ------------------------------- fetcher ------------------------------- *)
\* what fetch_arxiv returns: candidate items with non-empty title and url
FetchItems == [title : {"A"}, url : Urls, summary : Summaries]

\* items a caller hands to insert_many: dicts whose title may be None
StoreItems == [title : {"A", NULL}, url : Urls, summary : Summaries]

\* variant: a source whose adapter raised gets no entry in the counts dict
RunFetchResultNoEntry(rows, enabled, raised, items, times) ==
    IF ~enabled \/ raised THEN [rows |-> rows, counts |-> {}]
    ELSE LET r == InsertMany(rows, items, "arxiv", times, 1)
         IN  [rows |-> r.rows, counts |-> {<<"arxiv", r.count>>}]

\* run_fetch: the counts dict is the set of its (source, count) entries.
\* fetched is what fetch_arxiv did: a list of items, or <<"raise">>.
RunFetchResult(rows, enabled, raised, items, times) ==
    IF ~enabled THEN [rows |-> rows, counts |-> {}]
    ELSE IF raised THEN [rows |-> rows, counts |-> {<<"arxiv", 0>>}]
    ELSE LET r == InsertMany(rows, items, "arxiv", times, 1)
         IN  [rows |-> r.rows, counts |-> {<<"arxiv", r.count>>}]

(* --------------------------- email delivery ---------------------------- *)
\* Python "a or b": a unless it is falsy (None, "", [])
Or(a, b) == IF a \in {NULL, ""} THEN b ELSE a

\* int(text): -1 stands for ValueError
ParseInt(text) ==
    CASE text = "587" -> 587
      [] text = "465" -> 465
      [] text = "100" -> 100
      [] text = "1" -> 1
      [] text = "0" -> 0
      [] OTHER -> -1

\* os.getenv("SMTP_PORT", "587") or config.get("smtp_port", "587")
PortText(env, config) ==
    Or(IF env.SMTP_PORT = NULL THEN "587" ELSE env.SMTP_PORT,
       IF config.smtp_port = NULL THEN "587" ELSE config.smtp_port)

\* config.get("max_insights", 100)
MaxInsightsText(config) ==
    IF config.max_insights = NULL THEN "100" ELSE config.max_insights

\* s.strip() of one address segment
Strip(seg) ==
    CASE seg = " " -> ""
      [] seg = " b" -> "b"
      [] OTHER -> seg

\* _parse_recipients: raw is the list of segments (the elements of a list,
\* or the pieces of a comma-separated string); <<>> is None, "" or []
ParseRecipients(raw) ==
    LET Keep(seg) == Strip(seg) # ""
        kept == SelectSeq(raw, Keep)
    IN  [i \in 1..Len(kept) |-> Strip(kept[i])]

\* _build_body: one entry per insight, its payload and the url of its raw item
BuildBody(listed, raws) ==
    [i \in 1..Len(listed) |->
        [data |-> listed[i].data,
         url |-> IF listed[i].raw_item_id # None
                    /\ RawGetById(raws, listed[i].raw_item_id).id # None
                 THEN RawGetById(raws, listed[i].raw_item_id).url
                 ELSE NULL]]

\* variant: the loop sends to the first recipient only
SendLoopFirstOnly(k, failAt) ==
    IF failAt = 0 THEN [attempts |-> 0, sent |-> {}, raised |-> TRUE]
    ELSE IF k = 0 THEN [attempts |-> 0, sent |-> {}, raised |-> FALSE]
    ELSE IF failAt = 1 THEN [attempts |-> 1, sent |-> {}, raised |-> TRUE]
    ELSE [attempts |-> 1, sent |-> {1}, raised |-> FALSE]

\* variant: a failed send is skipped and the loop goes on
SendLoopContinues(k, failAt) ==
    IF failAt = 0 THEN [attempts |-> 0, sent |-> {}, raised |-> TRUE]
    ELSE [attempts |-> k, sent |-> (1..k) \ {failAt},
          raised |-> failAt <= k]

\* the body of the try block of deliver for k recipients: connect and log
\* in, then one sendmail per recipient in list order; the first exception
\* leaves the block.  failAt says where the transport raises: 0 while
\* connecting or logging in, i at the i-th sendmail, beyond k never.
\* attempts: sendmail calls made; sent: indices of the recipients whose
\* sendmail returned
SendLoop(k, failAt) ==
    IF failAt = 0 THEN [attempts |-> 0, sent |-> {}, raised |-> TRUE]
    ELSE IF failAt <= k
    THEN [attempts |-> failAt, sent |-> 1..(failAt - 1), raised |-> TRUE]
    ELSE [attempts |-> k, sent |-> 1..k, raised |-> FALSE]

\* the messages of the recipients in sent, in list order
RECURSIVE SentMessages(_, _, _)
SentMessages(msgs, sent, i) ==
    IF i > Len(msgs) THEN <<>>
    ELSE (IF i \in sent THEN <<msgs[i]>> ELSE <<>>)
            \o SentMessages(msgs, sent, i + 1)

\* EmailDeliveryPlugin.deliver.  listed is what insight_store.list_since
\* returned; failAt says where the transport raises (see SendLoop).
\* result is "True", "False" or "raise" (an exception leaves deliver).
EmailDeliver(raws, env, config, listed, failAt) ==
    LET smtp_host == Or(env.SMTP_HOST, config.smtp_host)
        smtp_port == ParseInt(PortText(env, config))
        smtp_user == Or(env.SMTP_USER, config.smtp_user)
        smtp_password == Or(env.SMTP_PASSWORD, config.smtp_password)
        smtp_from == smtp_user
        recipients == ParseRecipients(IF env.EMAIL_TO # <<>> THEN env.EMAIL_TO
                                      ELSE config.email_to)
        max_insights == ParseInt(MaxInsightsText(config))
        body == BuildBody(listed, raws)
        subject == <<"[AI]", Len(listed)>>
        Msg(i) == [to |-> recipients[i], subject |-> subject, body |-> body,
                   from |-> smtp_from,
                   mode |-> IF smtp_port = 465 THEN "ssl" ELSE "starttls"]
        loop == SendLoop(Len(recipients), failAt)
    IN  IF smtp_port = -1 \/ max_insights = -1
        THEN [result |-> "raise", sent |-> <<>>, attempts |-> 0]
        ELSE IF smtp_host = NULL \/ smtp_user = NULL \/ smtp_password = NULL
                \/ smtp_host = "" \/ smtp_user = "" \/ smtp_password = ""
                \/ Len(recipients) = 0
        THEN [result |-> "False", sent |-> <<>>, attempts |-> 0]
        ELSE IF Len(listed) = 0
        THEN [result |-> "True", sent |-> <<>>, attempts |-> 0]
        ELSE [result |-> IF loop.raised THEN "False" ELSE "True",
              sent |-> SentMessages([i \in 1..Len(recipients) |-> Msg(i)],
                                    loop.sent, 1),
              attempts |-> loop.attempts]

\* the environment variables and the plugin configuration block
Envs == [SMTP_HOST : {NULL, "h"}, SMTP_PORT : {NULL, "", "abc"},
         SMTP_USER : {"u"}, SMTP_PASSWORD : {"pw"},
         EMAIL_TO : {<<"a", " b">>}]

Configs == [smtp_host : {NULL}, smtp_port : {NULL, "465"}, smtp_user : {NULL},
            smtp_password : {NULL}, email_to : {<<>>},
            max_insights : {NULL, "x"}]

NoEnv == [SMTP_HOST |-> NULL, SMTP_PORT |-> NULL, SMTP_USER |-> NULL,
          SMTP_PASSWORD |-> NULL, EMAIL_TO |-> <<>>]

NoConfig == [smtp_host |-> NULL, smtp_port |-> NULL, smtp_user |-> NULL,
             smtp_password |-> NULL, email_to |-> <<>>, max_insights |-> NULL]

\* load_plugins_from_config: ids whose module cannot be imported are skipped
PluginIds == {"email", "nosuch"}

LoadPluginsFromConfig(plugin_ids) ==
    LET Loadable(pid) == pid = "email"
    IN  SelectSeq(plugin_ids, Loadable)

(* ------------------------------- state --------------------------------- *)
VARIABLES
    raw_items,     \* table raw_items, in rowid order
    insights,      \* table insights, in rowid order
    clock,         \* the system clock (datetime.utcnow)
    pc,            \* where the caller is: "idle" or a stage of run_daily.main
    an,            \* run_analyze activation of each runner, and its history
    env,           \* run_daily.main: the process environment (SMTP_*, EMAIL_TO)
    config,        \* run_daily.main: the delivery.email block of config.yaml
    plugins,       \* run_daily.main: the loaded delivery plugins
    pidx,          \* run_daily.main: index of the plugin to deliver next
    outbox,        \* messages handed to the SMTP server by the last deliver
    stages,        \* history: stage events of the current main invocation
    delivered,     \* history: result of each deliver call of the current main
    everInserted,  \* history: (source, url) pairs passed to a valid insert
    runFetched,    \* history: ids inserted by the fetch of the current main
    last,          \* history: the last store or fetch call and what it returned
    writers        \* the RawStore.insert call each concurrent writer is in

vars == <<raw_items, insights, clock, pc, an, env, config, plugins, pidx,
          outbox, stages, delivered, everInserted, runFetched, last, writers>>

mainVars == <<env, config, plugins, pidx, outbox, stages, delivered, runFetched>>

\* the processes that may run run_analyze: the single writer, and a second
\* process that only the concurrent runs use
Runners == {"main", "peer"}
\* the runner that run_daily.main uses
MainRunner == "main"

\* pc: "none" (no activation), "loop" (in the for loop), "returned"
\* key .. ret are the locals of run_analyze; the other fields are history:
\*   window     the list list_since returned
\*   calls      the analyze_one invocations of this run, <<id, outcome>>
\*   startIns   number of insights when the run began
\*   rawSeen    number of raw rows when the run read the store
\*   prevRan, prevFailed, prevAllOk, prevQuiet   about the run before this one
\*   lastRan, lastFailed, lastAllOk, lastEndRaw  about the last finished run
\*   racing     the runners that were in their loop, with no analysis call
\*              made yet, when this run read the stores
NoRun == [pc |-> "none", key |-> NULL, max |-> 0, window |-> <<>>,
          to_process |-> <<>>, idx |-> 1, count |-> 0, calls |-> <<>>,
          ret |-> 0, startIns |-> 0, rawSeen |-> 0, racing |-> {},
          prevRan |-> FALSE, prevFailed |-> {}, prevAllOk |-> FALSE,
          prevQuiet |-> FALSE,
          lastRan |-> FALSE, lastFailed |-> {}, lastAllOk |-> FALSE,
          lastEndRaw |-> 0]

\* op: "none", "insert", "insert_many" or "run_fetch"
\*   existed  insert: the (source, url) pair was stored before the call
\*   ret      insert: the returned id; insert_many: the returned count
\*   ok, items, counts  run_fetch: the adapter returned items; the counts dict
\*   same, before       run_fetch: the call before was a run_fetch whose
\*                      adapter returned the same items; the rows it left
\*   raised, added      run_fetch: the adapter raised; the number of rows
\*                      the call added
\*   added, fresh       insert_many: the number of rows the call added; the
\*                      number of distinct (source, url) pairs of its list
\*                      that were not stored before the call
\*   row                an insert that returned an id: the arguments of the
\*                      call (RawStore.insert and InsightStore.insert)
NoLast == [op |-> "none", existed |-> FALSE, ret |-> 0, ok |-> FALSE,
           items |-> <<>>, counts |-> {}, same |-> FALSE, before |-> <<>>,
           added |-> 0, fresh |-> 0, raised |-> FALSE, row |-> <<>>]

\* the processes that insert into one RawStore at the same time
Writers == {"w1", "w2"}

\* pc: "idle" (no call), "stamped" (fetched_at read, INSERT not yet run),
\* "locked" (INSERT run, the write transaction not yet committed),
\* "returned".  title .. fetched_at are the arguments and the timestamp of
\* the call, ret its return value; the other fields are history:
\*   existed   the (source, url) pair was stored when the call began
\*   racing    the writers whose call had begun and had not yet run its
\*             INSERT when this call began, or the other way round
NoWrite == [pc |-> "idle", title |-> NULL, url |-> NULL, summary |-> NULL,
            source |-> NULL, fetched_at |-> 0, ret |-> None,
            existed |-> FALSE, racing |-> {}]

Init ==
    /\ writers = [w \in Writers |-> NoWrite]
    /\ raw_items = <<>>
    /\ insights = <<>>
    /\ clock = 0
    /\ pc = "idle"
    /\ an = [r \in Runners |-> NoRun]
    /\ env = NoEnv
    /\ config = NoConfig
    /\ plugins = <<>>
    /\ pidx = 1
    /\ outbox = <<>>
    /\ stages = <<>>
    /\ delivered = <<>>
    /\ everInserted = {}
    /\ runFetched = {}
    /\ last = NoLast

\* no run_analyze activation is in its loop
NoAnalysisRunning == \A r \in Runners : an[r].pc # "loop"

\* once run_analyze has returned its activation is gone; what the history
\* keeps about it is the last* fields
Forget(a) ==
    IF a.pc = "loop" THEN a
    ELSE [NoRun EXCEPT !.lastRan = a.lastRan, !.lastFailed = a.lastFailed,
                       !.lastAllOk = a.lastAllOk, !.lastEndRaw = a.lastEndRaw]

Forgotten == [r \in Runners |-> Forget(an[r])]

\* nondecreasing clock readings for n consecutive inserts
ClockReadings(n) ==
    {t \in [1..n -> clock..MaxClock] : \A i, j \in 1..n : i < j => t[i] <= t[j]}

LastReading(t) == IF Len(t) = 0 THEN clock ELSE t[Len(t)]

Pairs(rows) == {<<rows[i].source, rows[i].url>> : i \in 1..Len(rows)}

Ids(rows) == {rows[i].id : i \in 1..Len(rows)}

(* ----------------------------- store calls ----------------------------- *)
\* a caller invokes RawStore.insert(title, url, summary, source); the
\* model lets the table grow to cap rows
InsertUpTo(cap, title, url, summary, source, now) ==
    LET r == RawInsert(raw_items, title, url, summary, source, now)
    IN  /\ pc = "idle" /\ NoAnalysisRunning
        /\ Len(r.rows) <= cap
        /\ raw_items' = r.rows
        /\ clock' = now
        /\ everInserted' = IF RawNotNullViolation(title, url, summary, source)
                           THEN everInserted
                           ELSE everInserted \cup {<<source, url>>}
        /\ last' = [NoLast EXCEPT !.op = "insert",
                       !.existed = (<<source, url>> \in Pairs(raw_items)),
                       !.ret = r.ret,
                       !.row = IF r.ret = None THEN <<>>
                               ELSE <<title, url, summary, source>>]
        /\ an' = Forgotten
        /\ UNCHANGED <<insights, pc>>
        /\ UNCHANGED <<mainVars, writers>>

\* a caller invokes RawStore.insert_many(items, source)
InsertManyCall(items, source, times) ==
    LET r == InsertMany(raw_items, items, source, times, 1)
    IN  /\ pc = "idle" /\ NoAnalysisRunning
        /\ Len(r.rows) <= MaxRaw
        /\ raw_items' = r.rows
        /\ clock' = LastReading(times)
        /\ everInserted' = everInserted \cup
                              {<<source, items[i].url>> :
                                  i \in {j \in 1..Len(items) :
                                            ~RawNotNullViolation(items[j].title,
                                                items[j].url, items[j].summary,
                                                source)}}
        /\ last' = [NoLast EXCEPT !.op = "insert_many", !.ret = r.count,
                       !.added = Len(r.rows) - Len(raw_items),
                       !.fresh = Cardinality(
                           {<<source, items[i].url>> : i \in 1..Len(items)}
                               \ Pairs(raw_items))]
        /\ an' = Forgotten
        /\ UNCHANGED <<insights, pc>>
        /\ UNCHANGED <<mainVars, writers>>

\* a caller invokes RawStore.insert(title, url, summary, source)
Insert(title, url, summary, source, now) ==
    InsertUpTo(MaxRaw, title, url, summary, source, now)

(* ------------------------------ pipeline ------------------------------- *)
\* variant: main delivers before it analyzes
StageAfterDeliverFirst(stage) ==
    CASE stage = "main_fetch" -> "main_load"
      [] stage = "main_load" -> "main_deliver"
      [] stage = "main_deliver" -> "main_analyze"
      [] stage = "main_analyze" -> "finished"

\* run_daily.main runs its stages in this order
StageAfter(stage) ==
    CASE stage = "main_fetch" -> "main_analyze"
      [] stage = "main_analyze" -> "main_load"
      [] stage = "main_load" -> "main_deliver"
      [] stage = "main_deliver" -> "finished"

\* run_fetch(raw_store, sources_config); inMain: called as stage 1 of main
RunFetch(inMain, enabled, raised, items, times) ==
    LET r == RunFetchResult(raw_items, enabled, raised, items, times)
        adapterOk == enabled /\ ~raised
        same == adapterOk /\ last.op = "run_fetch" /\ last.ok /\ last.items = items
    IN  /\ NoAnalysisRunning
        /\ ~adapterOk => items = <<>>
        /\ Len(r.rows) <= MaxRaw
        /\ raw_items' = r.rows
        /\ clock' = IF adapterOk THEN LastReading(times) ELSE clock
        /\ everInserted' = IF adapterOk
                           THEN everInserted \cup
                                {<<"arxiv", items[i].url>> : i \in 1..Len(items)}
                           ELSE everInserted
        /\ last' = [NoLast EXCEPT !.op = "run_fetch", !.ok = adapterOk,
                       !.items = items, !.counts = r.counts, !.same = same,
                       !.before = IF same THEN raw_items ELSE <<>>,
                       !.raised = enabled /\ raised,
                       !.added = Len(r.rows) - Len(raw_items)]
        /\ an' = Forgotten
        /\ IF inMain
           THEN /\ pc' = StageAfter("main_fetch")
                /\ stages' = Append(stages, "fetch")
                /\ runFetched' = Ids(r.rows) \ Ids(raw_items)
           ELSE UNCHANGED <<pc, stages, runFetched>>
        /\ UNCHANGED writers
        /\ UNCHANGED <<insights, env, config, plugins, pidx, outbox, delivered>>

\* a caller invokes run_fetch
FetchCall(enabled, raised, items, times) ==
    /\ pc = "idle"
    /\ RunFetch(FALSE, enabled, raised, items, times)

\* run_analyze begins: resolve the key, read the analyzed ids and the recent
\* raw items, select to_process; inMain: called as stage 2 of main
AnalyzeBegin(r, inMain, argKey, envKey, max) ==
    LET key == ResolveApiKey(argKey, envKey)
        a == Forget(an[r])
        base == [a EXCEPT !.key = key, !.max = max,
                          !.startIns = Len(insights),
                          !.racing = {q \in Runners \ {r} :
                                         an[q].pc = "loop" /\ an[q].calls = <<>>},
                          !.prevRan = a.lastRan,
                          !.prevFailed = a.lastFailed,
                          !.prevAllOk = a.lastAllOk,
                          !.prevQuiet = (a.lastEndRaw = Len(raw_items))]
    IN  /\ an[r].pc # "loop"
        /\ IF NoApiKey(key)
           THEN /\ an' = [an EXCEPT ![r] =
                            [base EXCEPT !.pc = "returned", !.ret = 0,
                                         !.lastRan = TRUE, !.lastFailed = {},
                                         !.lastAllOk = (raw_items = <<>>),
                                         !.lastEndRaw = Len(raw_items)]]
                /\ IF inMain
                   THEN /\ pc' = StageAfter("main_analyze")
                        /\ stages' = stages \o <<"analyze_start", "analyze_end">>
                   ELSE UNCHANGED <<pc, stages>>
           ELSE /\ \E listed \in RawListSince(raw_items, NoSince, max * 2) :
                    an' = [an EXCEPT ![r] =
                            [base EXCEPT !.pc = "loop", !.window = listed,
                                !.to_process =
                                    ToProcess(listed,
                                              GetAnalyzedRawItemIds(insights),
                                              max),
                                !.rawSeen = Len(raw_items)]]
                /\ stages' = IF inMain THEN Append(stages, "analyze_start")
                             ELSE stages
                /\ UNCHANGED pc
        /\ last' = NoLast
        /\ UNCHANGED writers
        /\ UNCHANGED <<raw_items, insights, clock, env, config, plugins, pidx,
                       outbox, delivered, everInserted, runFetched>>

\* run_analyze begins while no other run_analyze is under way
AnalyzeStart(r, inMain, argKey, envKey, max) ==
    /\ NoAnalysisRunning
    /\ AnalyzeBegin(r, inMain, argKey, envKey, max)

\* a process invokes run_analyze(raw_store, insight_store, ...), whatever
\* the other processes are doing
AnalyzeCallConcurrent(r, argKey, envKey, max) ==
    /\ pc = "idle"
    /\ AnalyzeBegin(r, FALSE, argKey, envKey, max)

\* a caller invokes run_analyze(raw_store, insight_store, ...)
AnalyzeCall(r, argKey, envKey, max) ==
    /\ pc = "idle"
    /\ AnalyzeStart(r, FALSE, argKey, envKey, max)

\* one iteration of the for loop of run_analyze
AnalyzeItem(r, outcome, payload, now) ==
    LET a == an[r]
        item == a.to_process[a.idx]
        res == ProcessItem(insights, a.count, item, outcome, payload, now)
    IN  /\ a.pc = "loop"
        /\ a.idx <= Len(a.to_process)
        /\ insights' = res.rows
        /\ clock' = now
        /\ an' = [an EXCEPT ![r] =
                    [a EXCEPT !.idx = a.idx + 1, !.count = res.count,
                              !.calls = Append(a.calls, <<item.id, outcome>>)]]
        /\ UNCHANGED <<raw_items, pc, everInserted, last>>
        /\ UNCHANGED <<mainVars, writers>>

\* the for loop is exhausted: return count
AnalyzeFinish(r) ==
    LET a == an[r]
    IN  /\ a.pc = "loop"
        /\ a.idx > Len(a.to_process)
        /\ an' = [an EXCEPT ![r] =
                    [a EXCEPT !.pc = "returned", !.ret = a.count,
                        !.lastRan = TRUE,
                        !.lastFailed = {c[1] : c \in {d \in Range(a.calls) :
                                                         d[2] = "raise"}},
                        !.lastAllOk = \A id \in Ids(raw_items) :
                                         <<id, "ok">> \in Range(a.calls),
                        !.lastEndRaw = Len(raw_items)]]
        /\ IF pc = "main_analyze"
           THEN /\ pc' = StageAfter("main_analyze")
                /\ stages' = Append(stages, "analyze_end")
           ELSE UNCHANGED <<pc, stages>>
        /\ UNCHANGED writers
        /\ UNCHANGED <<raw_items, insights, clock, env, config, plugins, pidx,
                       outbox, delivered, everInserted, runFetched, last>>

\* run_daily.main begins: load_config, RawStore(db_path), InsightStore(db_path)
\* (CREATE TABLE IF NOT EXISTS leaves existing tables as they are)
MainStart ==
    /\ pc = "idle" /\ NoAnalysisRunning
    /\ pc' = "main_fetch"
    /\ an' = Forgotten
    /\ last' = NoLast
    /\ UNCHANGED <<raw_items, insights, clock, everInserted>>
    /\ UNCHANGED <<mainVars, writers>>

\* run_daily.main, stage 1
MainFetch(enabled, raised, items, times) ==
    /\ pc = "main_fetch"
    /\ RunFetch(TRUE, enabled, raised, items, times)

\* run_daily.main, stage 2: run_analyze without an api_key argument
MainAnalyze(envKey, max) ==
    /\ pc = "main_analyze"
    /\ AnalyzeStart(MainRunner, TRUE, NULL, envKey, max)

\* values of analyzer.max_items_per_run in config.yaml that are no integer:
\* a missing value (None) and a quoted number
BadMaxItems == {NULL, "5"}

\* run_daily.main, stage 2, with a max_items_per_run that is no integer and
\* an api key present: "max_items_per_run * 2" or the slice of to_process
\* raises TypeError before the per-item loop; run_analyze has no handler
\* there and main has none around the stage, so the process ends
MainAnalyzeRaises(envKey, max) ==
    /\ pc = "main_analyze" /\ NoAnalysisRunning
    /\ ~NoApiKey(ResolveApiKey(NULL, envKey))
    /\ max \in BadMaxItems
    /\ pc' = "aborted"
    /\ stages' = Append(stages, "analyze_start")
    /\ an' = Forgotten
    /\ last' = NoLast
    /\ UNCHANGED writers
    /\ UNCHANGED <<raw_items, insights, clock, env, config, plugins, pidx,
                   outbox, delivered, everInserted, runFetched>>

\* run_daily.main, stage 3: load the configured delivery plugins; e and c
\* are the environment and the plugin's configuration block of this process
MainLoadPlugins(plugin_ids, e, c) ==
    /\ pc = "main_load"
    /\ plugins' = LoadPluginsFromConfig(plugin_ids)
    /\ env' = e
    /\ config' = c
    /\ pidx' = 1
    /\ pc' = StageAfter("main_load")
    /\ stages' = Append(stages, "deliver_start")
    /\ an' = Forgotten
    /\ UNCHANGED writers
    /\ UNCHANGED <<raw_items, insights, clock, outbox, delivered,
                   everInserted, runFetched, last>>

\* run_daily.main: p.deliver(...) of the next plugin; an exception that
\* leaves deliver is not caught by main and ends the process
MainDeliver(failAt) ==
    /\ pc = "main_deliver"
    /\ pidx <= Len(plugins)
    /\ \E listed \in (IF ParseInt(MaxInsightsText(config)) = -1 THEN {<<>>}
                      ELSE InsightListSince(insights, NoSince,
                                            ParseInt(MaxInsightsText(config)))) :
        LET d == EmailDeliver(raw_items, env, config, listed, failAt)
        IN  /\ delivered' = Append(delivered, d.result)
            /\ outbox' = d.sent
            /\ IF d.result = "raise"
               THEN /\ pc' = "aborted"
                    /\ UNCHANGED pidx
               ELSE /\ pidx' = pidx + 1
                    /\ UNCHANGED pc
    /\ UNCHANGED writers
    /\ UNCHANGED <<raw_items, insights, clock, an, env, config, plugins,
                   stages, everInserted, runFetched, last>>

\* run_daily.main: every plugin was called, "run_daily finished" is logged
MainFinish ==
    /\ pc = "main_deliver"
    /\ pidx > Len(plugins)
    /\ pc' = StageAfter("main_deliver")
    /\ stages' = Append(stages, "deliver_end")
    /\ UNCHANGED writers
    /\ UNCHANGED <<raw_items, insights, clock, an, env, config, plugins, pidx,
                   outbox, delivered, everInserted, runFetched, last>>

\* the process of run_daily.main has ended
MainExit ==
    /\ pc \in {"finished", "aborted"}
    /\ pc' = "idle"
    /\ env' = NoEnv
    /\ config' = NoConfig
    /\ stages' = <<>>
    /\ delivered' = <<>>
    /\ runFetched' = {}
    /\ plugins' = <<>>
    /\ pidx' = 1
    /\ outbox' = <<>>
    /\ UNCHANGED writers
    /\ UNCHANGED <<raw_items, insights, clock, an, everInserted, last>>

(* -------------------------- concurrent writers ------------------------- *)
\* the writers whose insert call has begun and has not returned
InFlight == {w \in Writers : writers[w].pc \in {"stamped", "locked"}}

\* writer w enters RawStore.insert(title, url, summary, source) and reads
\* the clock for fetched_at
WriterBegin(w, title, url, summary, source, now) ==
    /\ writers[w].pc = "idle"
    /\ now >= clock
    /\ clock' = now
    /\ writers' = [q \in Writers |->
                      IF q = w
                      THEN [NoWrite EXCEPT !.pc = "stamped", !.title = title,
                               !.url = url, !.summary = summary,
                               !.source = source, !.fetched_at = now,
                               !.existed = (<<source, url>> \in Pairs(raw_items)),
                               !.racing = InFlight \ {w}]
                      ELSE IF q \in InFlight
                      THEN [writers[q] EXCEPT !.racing = @ \cup {w}]
                      ELSE writers[q]]
    /\ UNCHANGED <<raw_items, insights, pc, an, everInserted, last>>
    /\ UNCHANGED mainVars

\* writer w runs its INSERT statement: SQLite lets one connection write at
\* a time, so the statement waits while another writer's transaction is
\* open; the UNIQUE and NOT NULL constraints are checked by the statement
WriterExecute(w) ==
    LET c == writers[w]
        r == ExecuteInsert(raw_items, c.existed, c.title, c.url, c.summary,
                           c.source, c.fetched_at)
    IN  /\ c.pc = "stamped"
        /\ \A q \in Writers \ {w} : writers[q].pc # "locked"
        /\ Len(r.rows) <= MaxRaw
        /\ writers' = [writers EXCEPT ![w].pc = "locked", ![w].ret = r.ret]
        /\ UNCHANGED <<raw_items, insights, clock, pc, an, everInserted, last>>
        /\ UNCHANGED mainVars

\* writer w leaves the connection's with block: conn.commit() after the
\* INSERT went through, the block's own commit after IntegrityError; the
\* new row, if any, becomes part of the table and the write lock is freed
WriterCommit(w) ==
    LET c == writers[w]
        r == ExecuteInsert(raw_items, c.existed, c.title, c.url, c.summary,
                           c.source, c.fetched_at)
    IN  /\ c.pc = "locked"
        /\ raw_items' = IF c.ret = None THEN raw_items ELSE r.rows
        /\ everInserted' = IF c.ret = None THEN everInserted
                           ELSE everInserted \cup {<<c.source, c.url>>}
        /\ writers' = [writers EXCEPT ![w].pc = "returned"]
        /\ an' = Forgotten
        /\ UNCHANGED <<insights, clock, pc, last>>
        /\ UNCHANGED mainVars

\* the caller of writer w has taken the return value
WriterReturn(w) ==
    /\ writers[w].pc = "returned"
    /\ writers' = [q \in Writers |->
                      IF q = w THEN NoWrite
                      ELSE [writers[q] EXCEPT !.racing = @ \ {w}]]
    /\ UNCHANGED <<raw_items, insights, clock, pc, an, everInserted, last>>
    /\ UNCHANGED mainVars

(* ------------------------- direct store calls -------------------------- *)
\* largest number of rows the model lets insights grow to
MaxInsights == 2

\* a caller invokes InsightStore.insert(raw_item_id, data); the id is not
\* checked against raw_items
InsightInsertCall(raw_item_id, data, now) ==
    LET w == InsightInsert(insights, <<raw_item_id, data>>, now)
    IN  /\ pc = "idle" /\ NoAnalysisRunning
        /\ Len(insights) < MaxInsights
        /\ insights' = w.rows
        /\ clock' = now
        /\ last' = [NoLast EXCEPT !.op = "insight_insert", !.ret = w.ret,
                       !.row = <<raw_item_id, data>>]
        /\ an' = Forgotten
        /\ UNCHANGED <<raw_items, pc, everInserted>>
        /\ UNCHANGED <<mainVars, writers>>

\* a caller invokes list_since(since, limit) of the RawStore ("raw") or of
\* the InsightStore ("insight"); again: the call before was the same call
ListCall(store, since, limit) ==
    LET again == /\ last.op = "list" /\ last.store = store
                 /\ last.since = since /\ last.limit = limit
    IN  /\ pc = "idle" /\ NoAnalysisRunning
        /\ \E res \in (IF store = "raw"
                       THEN RawListSince(raw_items, since, limit)
                       ELSE InsightListSince(insights, since, limit)) :
              last' = [op |-> "list", store |-> store, since |-> since,
                       limit |-> limit, result |-> res, again |-> again,
                       prev |-> IF again THEN last.result ELSE <<>>]
        /\ UNCHANGED <<raw_items, insights, clock, pc, an, everInserted>>
        /\ UNCHANGED <<mainVars, writers>>

\* the environment and the configuration block of a direct deliver call:
\* EMAIL_TO is a list of address segments ("a", " b" with a blank to strip),
\* or a list that begins with a blank segment
MailEnvs == [SMTP_HOST : {"h"}, SMTP_PORT : {NULL},
             SMTP_USER : {"u"}, SMTP_PASSWORD : {"pw"},
             EMAIL_TO : SeqsUpTo({"a", " b"}, MaxRecipients)
                           \cup {<<" ", "a">>}]

MailConfigs == [smtp_host : {NULL}, smtp_port : {NULL}, smtp_user : {NULL},
                smtp_password : {NULL}, email_to : {<<>>},
                max_insights : {NULL, "1", "0"}]

\* environments and configuration blocks that each may give a setting
SettingEnvs == [SMTP_HOST : {"h"}, SMTP_PORT : {NULL, "587"},
                SMTP_USER : {"u"}, SMTP_PASSWORD : {"pw"},
                EMAIL_TO : {<<>>, <<"a">>}]

SettingConfigs == [smtp_host : {NULL, "ch"}, smtp_port : {NULL, "465"},
                   smtp_user : {NULL, "cu"}, smtp_password : {NULL},
                   email_to : {<<>>, <<"b">>}, max_insights : {NULL}]

\* a caller invokes plugin.deliver(insight_store, config, context) with the
\* environment e, once the value of a deliver call before has been taken
DeliverCall(e, c, failAt) ==
    /\ pc = "idle" /\ NoAnalysisRunning
    /\ last.op # "deliver"
    /\ \E listed \in InsightListSince(insights, NoSince,
                                      ParseInt(MaxInsightsText(c))) :
          LET d == EmailDeliver(raw_items, e, c, listed, failAt)
          IN  last' = [op |-> "deliver", env |-> e, config |-> c,
                       failAt |-> failAt, listed |-> listed,
                       result |-> d.result, sent |-> d.sent,
                       attempts |-> d.attempts]
    /\ UNCHANGED <<raw_items, insights, clock, pc, an, everInserted>>
    /\ UNCHANGED <<mainVars, writers>>

\* payloads as the data model has them, string-keyed maps of strings, lists
\* of strings and nested maps: {}, {"opportunities": ["x"]} and
\* {"a": "s", "n": {"k": "v"}}
InsightPayloads ==
    {PyDict(<<>>),
     PyDict(<<<<PyStr("opportunities"), PyList(<<PyStr("x")>>)>>>>),
     PyDict(<<<<PyStr("a"), PyStr("s")>>,
              <<PyStr("n"), PyDict(<<<<PyStr("k"), PyStr("v")>>>>)>>>>)}

\* other dicts Python lets a caller pass: {"a": ("x",)} and {1: "x"}
OtherPayloads ==
    {PyDict(<<<<PyStr("a"), PyTuple(<<PyStr("x")>>)>>>>),
     PyDict(<<<<PyInt("1"), PyStr("x")>>>>)}

\* variant: the constructor creates its table anew
CreateTableAnew(rows) == <<>>

\* conn.execute of CREATE TABLE IF NOT EXISTS: a table that exists is left
\* as it is, a missing one is created empty
CreateTableIfNotExists(rows) == rows

\* a caller constructs RawStore(db_path) and InsightStore(db_path) on the
\* database file in use
OpenStores ==
    /\ pc = "idle" /\ NoAnalysisRunning
    /\ last.op # "open"
    /\ raw_items' = CreateTableIfNotExists(raw_items)
    /\ insights' = CreateTableIfNotExists(insights)
    /\ last' = [NoLast EXCEPT !.op = "open"]
    /\ an' = Forgotten
    /\ UNCHANGED <<clock, pc, everInserted>>
    /\ UNCHANGED <<mainVars, writers>>

(* ---------------------------- parser calls ----------------------------- *)
\* longest free response text handed to _parse_llm_response
MaxText == 4

\* JSON object payloads: empty, one string member, a nested object, a member
\* named opportunities, and members whose string holds a brace
ParsePayloads ==
    {<<"{", "}">>,
     <<"{", "k", "q", "w", "q", "}">>,
     <<"{", "k", "{", "}", "}">>,
     <<"{", "o", "q", "w", "q", "}">>,
     <<"{", "k", "q", "}", "q", "}">>,
     <<"{", "k", "q", "{", "q", "}">>}

\* the ways a response carries its payload
WrapForms == {"bare", "fence", "fence_tag", "prose_before", "prose_after",
              "prose_both"}

Wrap(form, payload) ==
    CASE form = "bare" -> payload
      [] form = "fence" -> <<"F", " ">> \o payload \o <<" ", "F">>
      [] form = "fence_tag" -> <<"F", "w", " ">> \o payload \o <<" ", "F">>
      [] form = "prose_before" -> <<"w", " ">> \o payload
      [] form = "prose_after" -> payload \o <<" ", "w">>
      [] form = "prose_both" -> <<"w", " ">> \o payload \o <<" ", "w">>

\* analyze_one hands the response text to _parse_llm_response; payload and
\* form record how the text was built ("none": a free text)
ParseCall(text, payload, form) ==
    /\ pc = "idle" /\ NoAnalysisRunning
    /\ last.op = "none"
    /\ last' = [op |-> "parse", text |-> text, payload |-> payload,
                form |-> form, result |-> ParseLlmResponse(text)]
    /\ UNCHANGED <<raw_items, insights, clock, pc, an, everInserted>>
    /\ UNCHANGED <<mainVars, writers>>

\* the caller is done with the value a call returned
CallReturn ==
    /\ last.op \in {"parse", "list", "deliver"}
    /\ last' = NoLast
    /\ UNCHANGED <<raw_items, insights, clock, pc, an, everInserted>>
    /\ UNCHANGED <<mainVars, writers>>

\* values of the api_key argument and of OPENAI_API_KEY
ApiKeys == {NULL, "", "k"}

(* --------------------------- specifications ---------------------------- *)
\* calls on the RawStore
NextStore ==
    \/ \E t \in Titles \cup {NULL}, u \in Urls, sm \in Summaries,
          src \in Sources, now \in clock..MaxClock :
          Insert(t, u, sm, src, now)
    \/ \E items \in SeqsUpTo(FetchItems, MaxFetch), src \in Sources :
          \E times \in ClockReadings(Len(items)) :
             InsertManyCall(items, src, times)

\* insert_many calls on lists whose items may lack a title, each list
\* inserted within one reading of the clock, interleaved with single inserts
NextBatch ==
    \/ \E u \in Urls, src \in Sources, now \in clock..MaxClock :
          Insert("A", u, "s", src, now)
    \/ \E items \in SeqsUpTo(StoreItems, MaxFetch), src \in Sources,
          now \in clock..MaxClock :
          InsertManyCall(items, src, [i \in 1..Len(items) |-> now])

\* run_fetch invocations interleaved with inserts of raw items
NextFetch ==
    \/ \E u \in Urls, src \in Sources, now \in clock..MaxClock :
          Insert("A", u, "s", src, now)
    \/ \E enabled \in BOOLEAN, raised \in BOOLEAN,
          items \in SeqsUpTo(FetchItems, MaxFetch) :
          \E times \in ClockReadings(Len(items)) :
             FetchCall(enabled, raised, items, times)

\* calls of _parse_llm_response on free texts and on wrapped payloads
NextParse ==
    \/ \E text \in SeqsUpTo(Tokens, MaxText) : ParseCall(text, <<>>, "none")
    \/ \E payload \in ParsePayloads, form \in WrapForms :
          ParseCall(Wrap(form, payload), payload, form)
    \/ CallReturn

\* the steps of a run_analyze activation
AnalyzeSteps ==
    \/ \E outcome \in {"ok", "raise"}, payload \in Payloads,
          now \in clock..MaxClock :
          AnalyzeItem(MainRunner, outcome, payload, now)
    \/ AnalyzeFinish(MainRunner)

\* the (source, url) keys in the order in which raw items are first inserted
\* between run_analyze invocations; run_analyze reads neither field
RawKeys == <<<<"arxiv", "u1">>, <<"arxiv", "u2">>, <<"rss", "u1">>, <<"rss", "u2">>>>

\* run_analyze invocations interleaved with inserts of raw items: a stored
\* key again (a duplicate) or the next key of RawKeys
NextAnalyze ==
    \/ \E k \in 1..Len(RawKeys), now \in clock..MaxClock :
          /\ k <= Len(raw_items) + 1
          /\ Insert("A", RawKeys[k][2], "s", RawKeys[k][1], now)
    \/ \E argKey \in ApiKeys, envKey \in ApiKeys, max \in 1..MaxItemsPerRun :
          AnalyzeCall(MainRunner, argKey, envKey, max)
    \/ AnalyzeSteps

\* the next raw item (keys in the order of RawKeys) or a stored key again
InsertNextRaw ==
    \E k \in 1..Len(RawKeys), now \in clock..MaxClock :
        /\ k <= Len(raw_items) + 1
        /\ Insert("A", RawKeys[k][2], "s", RawKeys[k][1], now)

\* list_since calls interleaved with inserts into both stores
NextList ==
    \/ InsertNextRaw
    \/ \E id \in 1..MaxRaw, data \in Payloads, now \in clock..MaxClock :
          InsightInsertCall(id, data, now)
    \/ \E store \in {"raw", "insight"}, since \in {NoSince} \cup 0..MaxClock,
          limit \in 1..(MaxRaw + 1) :
          ListCall(store, since, limit)

\* deliver calls of the email plugin interleaved with inserts into both
\* stores: the next raw item at the current clock reading, and the k-th
\* insight written for raw item id k, stored or not
NextDeliver ==
    \/ \E k \in 1..Len(RawKeys) :
          /\ k = Len(raw_items) + 1
          /\ Insert("A", RawKeys[k][2], "s", RawKeys[k][1], clock)
    \/ \E data \in Payloads, now \in clock..MaxClock :
          InsightInsertCall(Len(insights) + 1, data, now)
    \/ \E e \in MailEnvs, c \in MailConfigs, failAt \in 0..(MaxRecipients + 1) :
          DeliverCall(e, c, failAt)
    \/ CallReturn

\* the list fetch_arxiv returns when the feed holds n entries
ArxivBatch(n) ==
    [i \in 1..n |-> [title |-> "A", url |-> RawKeys[i][2], summary |-> "s"]]

\* every operation on the database file, single writer: the insert of the
\* next key, or of a stored key with another title; insert_many and
\* run_fetch on the first entries of the arXiv feed within one clock
\* reading; run_analyze with an analysis function that succeeds; direct
\* insight inserts; deliver; the construction of new store objects
NextFrame ==
    \/ \E k \in 1..Len(RawKeys), now \in clock..MaxClock :
          /\ k <= Len(raw_items) + 1
          /\ Insert(IF k <= Len(raw_items) THEN "B" ELSE "A",
                    RawKeys[k][2], "s", RawKeys[k][1], now)
    \/ \E n \in 0..MaxFetch :
          /\ n <= Cardinality(Urls)
          /\ InsertManyCall(ArxivBatch(n), "arxiv", [i \in 1..n |-> clock])
    \/ \E raised \in BOOLEAN, n \in 0..MaxFetch :
          /\ n <= Cardinality(Urls)
          /\ FetchCall(TRUE, raised, ArxivBatch(n), [i \in 1..n |-> clock])
    \/ AnalyzeCall(MainRunner, "k", NULL, MaxItemsPerRun)
    \/ \E payload \in Payloads : AnalyzeItem(MainRunner, "ok", payload, clock)
    \/ AnalyzeFinish(MainRunner)
    \/ \E data \in Payloads :
          InsightInsertCall(Len(insights) + 1, data, clock)
    \/ \E e \in MailEnvs, c \in MailConfigs :
          /\ e.EMAIL_TO = <<"a">>
          /\ DeliverCall(e, c, MaxRecipients + 1)
    \/ CallReturn
    \/ OpenStores

\* InsightStore.insert calls for ids of stored and of missing raw items,
\* interleaved with inserts of the next raw item
NextInsight ==
    \/ \E k \in 1..Len(RawKeys) :
          /\ k = Len(raw_items) + 1
          /\ Insert("A", RawKeys[k][2], "s", RawKeys[k][1], clock)
    \/ \E id \in 1..(MaxRaw + 1), data \in InsightPayloads \cup OtherPayloads :
          InsightInsertCall(id, data, clock)
    \/ OpenStores

\* deliver calls whose settings come from the environment, from the
\* configuration block or from both, the transport never failing
NextSettings ==
    \/ \E data \in Payloads, now \in clock..MaxClock :
          InsightInsertCall(Len(insights) + 1, data, now)
    \/ \E e \in SettingEnvs, c \in SettingConfigs :
          DeliverCall(e, c, MaxRecipients + 1)
    \/ CallReturn

\* run_analyze invocations with max_items_per_run = 1 and an analysis
\* function that succeeds, on a store that grows to MaxBacklog raw items; InsightStore.insert writes an
\* insight for the raw item inserted last among those that have none
NextBacklog ==
    \/ \E k \in 1..Len(RawKeys), now \in clock..MaxClock :
          /\ k = Len(raw_items) + 1
          /\ InsertUpTo(MaxBacklog, "A", RawKeys[k][2], "s", RawKeys[k][1], now)
    \/ \E id \in Ids(raw_items), data \in Payloads :
          /\ id \notin GetAnalyzedRawItemIds(insights)
          /\ \A other \in Ids(raw_items) \ GetAnalyzedRawItemIds(insights) :
                other <= id
          /\ InsightInsertCall(id, data, clock)
    \/ AnalyzeCall(MainRunner, "k", NULL, 1)
    \/ \E payload \in Payloads : AnalyzeItem(MainRunner, "ok", payload, clock)
    \/ AnalyzeFinish(MainRunner)

\* run_analyze invocations of two processes on the same database file,
\* their steps interleaved, with an analysis function that succeeds, and
\* inserts of the next raw item between runs
NextRace ==
    \/ \E k \in 1..Len(RawKeys) :
          /\ k = Len(raw_items) + 1
          /\ Insert("A", RawKeys[k][2], "s", RawKeys[k][1], clock)
    \/ \E r \in Runners, max \in 1..MaxItemsPerRun :
          AnalyzeCallConcurrent(r, "k", NULL, max)
    \/ \E r \in Runners, payload \in Payloads :
          AnalyzeItem(r, "ok", payload, clock)
    \/ \E r \in Runners : AnalyzeFinish(r)

\* two processes calling RawStore.insert on the same database file, their
\* steps interleaved; each writer's rows carry a title of its own
NextWriters ==
    \/ \E w \in Writers, k \in 1..(MaxRaw + 1), now \in clock..MaxClock :
          WriterBegin(w, IF w = "w1" THEN "A" ELSE "B", RawKeys[k][2], "s",
                      RawKeys[k][1], now)
    \/ \E w \in Writers : WriterExecute(w)
    \/ \E w \in Writers : WriterCommit(w)
    \/ \E w \in Writers : WriterReturn(w)

\* invocations of run_daily.main
NextMain ==
    \/ MainStart
    \/ \E enabled \in BOOLEAN, raised \in BOOLEAN,
          items \in SeqsUpTo(FetchItems, MaxFetch) :
          \E times \in ClockReadings(Len(items)) :
             MainFetch(enabled, raised, items, times)
    \/ \E envKey \in ApiKeys, max \in 1..MaxItemsPerRun : MainAnalyze(envKey, max)
    \/ AnalyzeSteps
    \/ \E plugin_ids \in SeqsUpTo(PluginIds, MaxPlugins), e \in Envs,
          c \in Configs :
          MainLoadPlugins(plugin_ids, e, c)
    \/ \E failAt \in 0..(MaxRecipients + 1) : MainDeliver(failAt)
    \/ MainFinish
    \/ MainExit

\* invocations of run_daily.main, the analyzer configuration unchecked
NextStage ==
    \/ NextMain
    \/ \E envKey \in ApiKeys, max \in BadMaxItems : MainAnalyzeRaises(envKey, max)

Next == NextWriters \/ NextRace \/ NextBacklog \/ NextSettings \/ NextInsight \/ NextFrame \/ NextStage \/ NextList \/ NextDeliver \/ NextStore \/ NextBatch \/ NextFetch \/ NextAnalyze \/ NextMain \/ NextParse

Spec == Init /\ [][Next]_vars

\* any sequence of RawStore calls
SpecStore == Init /\ [][NextStore]_vars

\* any sequence of raw inserts and insert_many calls
SpecBatch == Init /\ [][NextBatch]_vars

\* any sequence of raw inserts and run_fetch invocations
SpecFetch == Init /\ [][NextFetch]_vars

\* any sequence of raw inserts and run_analyze invocations, single writer
SpecAnalyze == Init /\ [][NextAnalyze]_vars

\* any sequence of pipeline invocations
SpecMain == Init /\ [][NextMain]_vars

\* any sequence of pipeline invocations, the analyzer configuration unchecked
SpecStage == Init /\ [][NextStage]_vars

\* any sequence of store inserts and list_since calls
SpecList == Init /\ [][NextList]_vars

\* any sequence of store inserts and deliver calls
SpecDeliver == Init /\ [][NextDeliver]_vars

\* any sequence of parser calls
SpecParse == Init /\ [][NextParse]_vars

\* any sequence of operations on the database file, single writer
SpecFrame == Init /\ [][NextFrame]_vars

\* any sequence of insight inserts and deliver calls with mixed settings
SpecSettings == Init /\ [][NextSettings]_vars

\* any sequence of raw inserts, insight inserts and run_analyze invocations
SpecBacklog == Init /\ [][NextBacklog]_vars

\* any interleaving of the run_analyze invocations of two processes
SpecRace == Init /\ [][NextRace]_vars
SpecWriters == Init /\ [][NextWriters]_vars

\* any sequence of InsightStore.insert calls and raw inserts
SpecInsight == Init /\ [][NextInsight]_vars

(* ------------------------------- claims -------------------------------- *)
RefCount(id) == Cardinality({i \in 1..Len(insights) : insights[i].raw_item_id = id})

\* insights written since the run of runner r began that reference id
NewRefCount(r, id) ==
    Cardinality({i \in (an[r].startIns + 1)..Len(insights) :
                    insights[i].raw_item_id = id})

IsPrefix(s, t) == Len(s) <= Len(t) /\ SubSeq(t, 1, Len(s)) = s

\* C1: after any sequence of insert and insert_many calls raw_items holds
\* exactly one row per distinct (source, url) pair ever inserted, and an
\* insert of a pair that is already stored returns None.
C1_DedupInvariant ==
    /\ Pairs(raw_items) = everInserted
    /\ Cardinality(Pairs(raw_items)) = Len(raw_items)
    /\ (last.op = "insert" /\ last.existed) => last.ret = None

\* a duplicate insert has just returned, with two pairs stored
C1_Witness ==
    /\ last.op = "insert" /\ last.existed /\ last.ret = None
    /\ Len(raw_items) = 2

\* C2: under single-writer execution, after any run_analyze invocations
\* interleaved with raw inserts, every raw item is referenced by at most one
\* insight.
C2_AtMostOneInsight == \A id \in Ids(raw_items) : RefCount(id) <= 1

\* a second run_analyze has returned after analysing a stored item again
C2_Witness ==
    \E r \in Runners :
        /\ an[r].pc = "returned" /\ an[r].prevRan
        /\ \E id \in Ids(raw_items) : <<id, "ok">> \in Range(an[r].calls)

\* C3: a run_fetch that follows a run_fetch whose adapter returned the same
\* items reports 0 new items for the source and leaves the rows as the first
\* run left them.
C3_IdempotentFetch ==
    (last.op = "run_fetch" /\ last.same) =>
        /\ last.counts = {<<"arxiv", 0>>}
        /\ raw_items = last.before

\* the second of two run_fetch calls with the same two items has returned
C3_Witness ==
    /\ last.op = "run_fetch" /\ last.same
    /\ Len(last.items) = 2 /\ last.items[1] # last.items[2]
    /\ Len(raw_items) = 2

\* C4: with credentials present, when run_analyze returns, every selected
\* item whose analysis call succeeded is referenced by exactly one insight
\* written in this run, and the returned value is the number of insights
\* written in this run.
C4_SuccessWritesInsight ==
    \A r \in Runners :
        (an[r].pc = "returned" /\ an[r].key \notin {NULL, ""}) =>
            /\ \A c \in Range(an[r].calls) :
                  c[2] = "ok" => NewRefCount(r, c[1]) = 1
            /\ an[r].ret = Len(insights) - an[r].startIns

\* C5: within one run_analyze an item whose analysis call fails gets no
\* insight, the run goes on (every selected item is attempted exactly once,
\* in order), and every other selected item whose analysis succeeds gets its
\* insight in the same run.
C5_FailureIsolated ==
    \A r \in Runners :
        (an[r].pc = "returned" /\ an[r].key \notin {NULL, ""}) =>
            /\ Len(an[r].calls) = Len(an[r].to_process)
            /\ \A i \in 1..Len(an[r].calls) :
                  /\ an[r].calls[i][1] = an[r].to_process[i].id
                  /\ an[r].calls[i][2] = "raise"
                        => NewRefCount(r, an[r].calls[i][1]) = 0
                  /\ an[r].calls[i][2] = "ok"
                        => NewRefCount(r, an[r].calls[i][1]) = 1

\* id is referenced by no insight that existed when the run of r began
FreshAtStart(r, id) ==
    \A i \in 1..an[r].startIns : i <= Len(insights) => insights[i].raw_item_id # id

\* id is listed in the window of r and fewer than max un-analyzed items of
\* the window come before it
InReach(r, id) ==
    \E k \in 1..Len(an[r].window) :
        /\ an[r].window[k].id = id
        /\ Cardinality({j \in 1..(k - 1) : FreshAtStart(r, an[r].window[j].id)})
              < an[r].max

Selected(r) == {an[r].to_process[i].id : i \in 1..Len(an[r].to_process)}

FailedIn(r) == {c[1] : c \in {d \in Range(an[r].calls) : d[2] = "raise"}}

\* C6 as stated: a raw item whose analysis failed in one run has no insight
\* after that run and is selected again by the next run_analyze invocation
\* (taken here as the next invocation that has credentials).
C6_FailedSelectedByNextRun ==
    \A r \in Runners :
        /\ an[r].pc = "returned" => \A id \in FailedIn(r) : RefCount(id) = 0
        /\ (an[r].pc \in {"loop", "returned"} /\ an[r].key \notin {NULL, ""}
               /\ an[r].prevRan)
             => \A id \in an[r].prevFailed : id \in Selected(r)

\* C6 amended: a raw item whose analysis failed in one run has no insight
\* after that run, and the next run_analyze invocation that has credentials
\* selects it again whenever it is still listed among the 2*max most recent
\* raw items with fewer than max un-analyzed items before it.
C6_FailedSelectedIfInReach ==
    \A r \in Runners :
        /\ an[r].pc = "returned" => \A id \in FailedIn(r) : RefCount(id) = 0
        /\ (an[r].pc \in {"loop", "returned"} /\ an[r].key \notin {NULL, ""}
               /\ an[r].prevRan)
             => \A id \in an[r].prevFailed :
                   /\ FreshAtStart(r, id)
                   /\ InReach(r, id) => id \in Selected(r)

\* an item that failed in the run before is selected again by this run
C6_Witness ==
    \E r \in Runners :
        /\ an[r].pc = "loop" /\ an[r].prevRan
        /\ \E id \in an[r].prevFailed : InReach(r, id) /\ id \in Selected(r)
        /\ Len(raw_items) = 2

\* C7: after a run_analyze in which the analysis of every stored raw item
\* succeeded, a second run_analyze with no raw item inserted in between
\* calls the analysis function for no item, writes no insight and returns 0.
C7_SecondRunIdle ==
    \A r \in Runners :
        (an[r].pc \in {"loop", "returned"} /\ an[r].key \notin {NULL, ""}
            /\ an[r].prevRan /\ an[r].prevAllOk /\ an[r].prevQuiet)
          => /\ an[r].to_process = <<>>
             /\ an[r].calls = <<>>
             /\ Len(insights) = an[r].startIns
             /\ an[r].pc = "returned" => an[r].ret = 0

\* C8: a run_analyze invocation without an api key (none given, none in the
\* environment) returns 0 at once: no analysis call, RawStore and
\* InsightStore unchanged.
C8_NoKeySkipsAnalysis ==
    [][\A r \in Runners :
          (an[r].pc # "loop" /\ an'[r].pc # "none" /\ an'[r].key \in {NULL, ""})
            => /\ an'[r].pc = "returned"
               /\ an'[r].ret = 0
               /\ an'[r].calls = <<>>
               /\ an'[r].window = <<>>
               /\ raw_items' = raw_items
               /\ insights' = insights]_vars

\* run_analyze has returned for want of a key while raw items are stored
C8_Witness ==
    \E r \in Runners :
        /\ an[r].pc = "returned" /\ an[r].key \in {NULL, ""}
        /\ an[r].ret = 0 /\ raw_items # <<>>

StageOrder ==
    <<"fetch", "analyze_start", "analyze_end", "deliver_start", "deliver_end">>

C10_PluginFailureIsolated ==
    /\ pc # "aborted"
    /\ pc = "finished" => Len(delivered) = Len(plugins)

\* C15: for a JSON object payload, _parse_llm_response returns the same
\* mapping (the payload's) whether the payload is given bare, inside a fence
\* with or without a language tag, or with prose before and/or after it.
C15_WrappingIrrelevant ==
    (last.op = "parse" /\ last.form # "none")
        => /\ last.result = ParseLlmResponse(last.payload)
           /\ last.result = [kind |-> "parsed",
                             value |-> Compact(last.payload, FALSE)]

\* C16: when every parsing attempt fails, _parse_llm_response returns a
\* mapping with no keys.
C16_FallbackIsEmptyMapping ==
    (last.op = "parse" /\ last.result.kind = "fallback")
        => last.result.keys = {}

\* C19: insert_many returns the number of rows it added, which is the number
\* of distinct (source, url) pairs of its list that were not stored before.
C19_InsertManyCountsNewPairs ==
    last.op = "insert_many" =>
        /\ last.ret = last.added
        /\ last.ret = last.fresh

\* C20: RawStore.insert returns None only when the (source, url) pair was
\* already stored.
C20_NoneMeansDuplicate ==
    (last.op = "insert" /\ last.ret = None) => last.existed

\* C11: when the adapter of a source raises, run_fetch returns (it does not
\* raise) with a count of 0 for that source, and the RawStore holds the rows
\* it held before the run.
C11_FetchFailureIsolated ==
    [][(last'.op = "run_fetch" /\ last'.raised) =>
          /\ last'.counts = {<<"arxiv", 0>>}
          /\ last'.added = 0
          /\ raw_items' = raw_items]_vars

\* a run_fetch whose adapter raised has returned, with a row stored
C11_Witness ==
    /\ last.op = "run_fetch" /\ last.raised
    /\ Len(raw_items) >= 1

\* C12: when a stage as a whole raises, the exception is caught and the next
\* stage still runs: every invocation of main that has ended has started its
\* Deliver stage.
C12_StageFailureIsolated ==
    pc \in {"finished", "aborted"}
        => \E i \in 1..Len(stages) : stages[i] = "deliver_start"

\* the rows of the store a list_since call read, and their timestamps
ListedStore == IF last.store = "raw" THEN raw_items ELSE insights

StampOf(r) == IF last.store = "raw" THEN r.fetched_at ELSE r.analyzed_at

\* the stored rows whose timestamp is at or after since
ListSelected ==
    {r \in Range(ListedStore) : last.since = NoSince \/ StampOf(r) >= last.since}

\* C13: list_since(since, limit) of either store returns exactly the stored
\* rows with timestamp at or after since (all rows when since is omitted),
\* newest first, cut to the first limit entries: no row is repeated, the
\* length is min(limit, number of such rows), the timestamps go down, and no
\* row left out is newer than a row returned.
C13_ListSinceExact ==
    last.op = "list" =>
        /\ Range(last.result) \subseteq ListSelected
        /\ Cardinality(Range(last.result)) = Len(last.result)
        /\ Len(last.result) = IF Cardinality(ListSelected) < last.limit
                              THEN Cardinality(ListSelected) ELSE last.limit
        /\ \A i, j \in 1..Len(last.result) :
              i < j => StampOf(last.result[i]) >= StampOf(last.result[j])
        /\ \A r \in ListSelected \ Range(last.result) :
              \A x \in Range(last.result) : StampOf(r) <= StampOf(x)

MailRecipients ==
    ParseRecipients(IF last.env.EMAIL_TO # <<>> THEN last.env.EMAIL_TO
                    ELSE last.config.email_to)

MailSettingsComplete ==
    /\ Or(last.env.SMTP_HOST, last.config.smtp_host) \notin {NULL, ""}
    /\ Or(last.env.SMTP_USER, last.config.smtp_user) \notin {NULL, ""}
    /\ Or(last.env.SMTP_PASSWORD, last.config.smtp_password) \notin {NULL, ""}

\* one message per recipient, in list order, alike but for the recipient
OnePerRecipient ==
    /\ last.attempts = Len(MailRecipients)
    /\ Len(last.sent) = Len(MailRecipients)
    /\ \A i \in 1..Len(last.sent) :
          /\ last.sent[i].to = MailRecipients[i]
          /\ last.sent[i].body = last.sent[1].body
          /\ last.sent[i].subject = last.sent[1].subject
          /\ last.sent[i].from = last.sent[1].from

\* C17 as stated: with at least one insight stored, complete transport
\* settings and k >= 1 recipients, a deliver whose transport does not fail
\* makes exactly k sends, one per recipient in list order, with the same
\* body and subject, and returns True.
C17_OneSendPerRecipient ==
    (last.op = "deliver" /\ insights # <<>> /\ MailSettingsComplete
        /\ Len(MailRecipients) >= 1 /\ last.failAt > Len(MailRecipients))
      => (last.result = "True" /\ OnePerRecipient)

\* C17 amended: the same, provided max_insights lets at least one insight be
\* listed.
C17_OneSendPerRecipientIfListed ==
    (last.op = "deliver" /\ last.listed # <<>> /\ MailSettingsComplete
        /\ Len(MailRecipients) >= 1 /\ last.failAt > Len(MailRecipients))
      => (last.result = "True" /\ OnePerRecipient)

\* a deliver to two recipients, one written with a blank to strip, has
\* returned True
C17_Witness ==
    /\ last.op = "deliver" /\ last.result = "True"
    /\ last.listed # <<>>
    /\ Len(MailRecipients) = 2 /\ Len(last.sent) = 2
    /\ last.env.EMAIL_TO = <<"a", " b">>

\* C18: when the send to the i-th recipient raises, deliver has made i send
\* attempts and none to a later recipient, returns False, and the messages
\* to the recipients before the i-th stay sent.
C18_SendFailureStopsLoop ==
    (last.op = "deliver" /\ last.listed # <<>> /\ MailSettingsComplete
        /\ last.failAt >= 1 /\ last.failAt <= Len(MailRecipients))
      => /\ last.result = "False"
         /\ last.attempts = last.failAt
         /\ Len(last.sent) = last.failAt - 1
         /\ \A i \in 1..Len(last.sent) : last.sent[i].to = MailRecipients[i]

\* the send to the second of two recipients raised
C18_Witness ==
    /\ last.op = "deliver" /\ last.result = "False"
    /\ last.listed # <<>>
    /\ Len(MailRecipients) = 2 /\ last.failAt = 2 /\ Len(last.sent) = 1

\* the title, url, summary and source of a stored row
Inserted(row) == <<row.title, row.url, row.summary, row.source>>

\* C21: once RawStore.insert has returned an id, get_by_id(id) returns an
\* item with the inserted title, url, summary and source, and no operation
\* (a duplicate insert with another title, insert_many, run_fetch,
\* run_analyze, deliver, constructing new stores) changes or deletes a
\* stored raw item.
C21_RawItemsImmutable ==
    [][/\ (last'.op = "insert" /\ last'.ret # None)
            => Inserted(RawGetById(raw_items', last'.ret)) = last'.row
       /\ \A id \in Ids(raw_items) :
              RawGetById(raw_items', id) = RawGetById(raw_items, id)]_vars

\* new store objects were constructed on a file that holds two raw items
\* and an insight
C21_Witness ==
    /\ last.op = "open" /\ Len(raw_items) = 2 /\ insights # <<>>

\* x is a string or a list of strings
IsTextOrTexts(x) ==
    \/ x.t = "str"
    \/ x.t = "list" /\ \A i \in 1..Len(x.v) : x.v[i].t = "str"

\* x is a payload of the data model: a string-keyed map of strings, lists
\* of strings and nested maps
RECURSIVE IsPayload(_)
IsPayload(x) ==
    /\ x.t = "dict"
    /\ \A i \in 1..Len(x.v) :
          /\ x.v[i][1].t = "str"
          /\ IF x.v[i][2].t = "dict" THEN IsPayload(x.v[i][2])
             ELSE IsTextOrTexts(x.v[i][2])

C23_AnalyzedIdsExact ==
    /\ GetAnalyzedRawItemIds(insights)
          = {id \in 1..(MaxRaw + 1) : RefCount(id) >= 1}
    /\ last.op = "insight_insert"
          => last.row[1] \in GetAnalyzedRawItemIds(insights)

\* an insert has just returned; two stored insights reference one raw item
\* id, so the set holds that id once
C23_Witness ==
    /\ last.op = "insight_insert" /\ Len(insights) = 2
    /\ insights[1].raw_item_id = insights[2].raw_item_id
    /\ Cardinality(GetAnalyzedRawItemIds(insights)) = 1

\* C24: a setting given in the plugin's configuration block is the value
\* used, whatever the environment holds: the configured smtp_user is the
\* sender, the configured email_to gives the recipients, and a configured
\* smtp_port of 465 with no SMTP_PORT in the environment selects the
\* implicit-TLS mode.
C24_ConfigTakesPrecedence ==
    (last.op = "deliver" /\ last.sent # <<>>) =>
        \A i \in 1..Len(last.sent) :
            /\ last.config.smtp_user # NULL
                  => last.sent[i].from = last.config.smtp_user
            /\ last.config.email_to # <<>>
                  => last.sent[i].to \in Range(ParseRecipients(last.config.email_to))
            /\ (last.config.smtp_port = "465" /\ last.env.SMTP_PORT = NULL)
                  => last.sent[i].mode = "ssl"

\* the listings of rows by fetch time, latest first (rows fetched at the
\* same time in any order)
ByRecency(rows) ==
    {s \in [1..Len(rows) -> Range(rows)] :
        /\ \A x \in Range(rows) : \E i \in 1..Len(rows) : s[i] = x
        /\ \A i, j \in 1..Len(rows) :
              i < j => s[i].fetched_at >= s[j].fetched_at}

\* the ids of the first max items of listing s, cut to its 2*max first,
\* that no insight stored at the start of the run of r references
FirstFresh(r, s, max) ==
    LET Fresh(x) == FreshAtStart(r, x.id)
        picked == Take(SelectSeq(Take(s, 2 * max), Fresh), max)
    IN  [i \in 1..Len(picked) |-> picked[i].id]

\* C25: in one run, run_analyze calls the analysis function for exactly the
\* first max_items_per_run items, in recency order, among those of the
\* 2*max_items_per_run most recent raw items that are not analyzed: at most
\* max_items_per_run calls, none for an item that has an insight at the
\* start of the run.
C25_CallsFirstFreshByRecency ==
    \A r \in Runners :
        (an[r].pc = "returned" /\ an[r].key \notin {NULL, ""}) =>
            /\ Len(an[r].calls) <= an[r].max
            /\ \A i \in 1..Len(an[r].calls) : FreshAtStart(r, an[r].calls[i][1])
            /\ \E s \in ByRecency(SubSeq(raw_items, 1, an[r].rawSeen)) :
                  [i \in 1..Len(an[r].calls) |-> an[r].calls[i][1]]
                      = FirstFresh(r, s, an[r].max)

\* with the raw rows and the insights given, at least max raw items have
\* no insight, yet each of the 2*max most recent raw items has one
Starved(rows, ins, max) ==
    /\ Cardinality(Ids(rows) \ GetAnalyzedRawItemIds(ins)) >= max
    /\ \A w \in RawListSince(rows, NoSince, 2 * max) :
          \A i \in 1..Len(w) : w[i].id \in GetAnalyzedRawItemIds(ins)

\* C26: a run_analyze that starts when at least max_items_per_run raw items
\* have no insight but the 2*max_items_per_run most recent ones all have
\* one selects nothing: it calls the analysis function for no item, writes
\* no insight and returns 0, and leaves the stores in that same condition,
\* so that without new inserts a later run does the same.
C26_OversampleStarvesBacklog ==
    \A r \in Runners :
        (/\ an[r].pc \in {"loop", "returned"} /\ an[r].key \notin {NULL, ""}
         /\ Starved(SubSeq(raw_items, 1, an[r].rawSeen),
                    SubSeq(insights, 1, an[r].startIns), an[r].max))
          => /\ an[r].to_process = <<>>
             /\ an[r].calls = <<>>
             /\ Len(insights) = an[r].startIns
             /\ an[r].pc = "returned" => an[r].ret = 0
             /\ Starved(raw_items, insights, an[r].max)

\* a second run in a row, with no insert in between, has returned 0 while a
\* raw item older than the analyzed ones has no insight
C26_Witness ==
    \E r \in Runners :
        /\ an[r].pc = "returned" /\ an[r].key \notin {NULL, ""}
        /\ an[r].prevRan /\ an[r].prevQuiet
        /\ Starved(raw_items, insights, an[r].max)
        /\ an[r].ret = 0 /\ an[r].calls = <<>>
        /\ Len(raw_items) = MaxBacklog

\* C27: when two run_analyze invocations have both read the analyzed set
\* before either made an analysis call, and the analysis of one raw item
\* succeeded in both, each has written an insight for it: two insights
\* reference that raw item once both have returned.
C27_RaceWritesTwoInsights ==
    \A r \in Runners : \A q \in an[r].racing :
        (an[r].pc = "returned" /\ an[q].pc = "returned") =>
            \A id \in Ids(raw_items) :
                (<<id, "ok">> \in Range(an[r].calls)
                    /\ <<id, "ok">> \in Range(an[q].calls))
                  => RefCount(id) = 2

\* the calls of writers w and q overlapped in time, asked for the same
\* (source, url) pair, and both have returned
RacedForPair(w, q) ==
    /\ q \in writers[w].racing
    /\ writers[w].pc = "returned" /\ writers[q].pc = "returned"
    /\ writers[w].source = writers[q].source
    /\ writers[w].url = writers[q].url

\* C28: with two writers inserting into one RawStore under any
\* interleaving, no two rows of the table share (source, url), and of two
\* overlapping inserts of the same pair, not stored when they began,
\* exactly one has returned an id and the other None; an insert returns an
\* id only for a pair that was not stored when it began.
C28_ConcurrentInsertsStayUnique ==
    /\ \A i, j \in 1..Len(raw_items) :
          (raw_items[i].source = raw_items[j].source
              /\ raw_items[i].url = raw_items[j].url) => i = j
    /\ \A w \in Writers :
          (writers[w].pc = "returned" /\ writers[w].ret # None)
            => ~writers[w].existed
    /\ \A w \in Writers : \A q \in Writers \ {w} :
          (RacedForPair(w, q) /\ ~writers[w].existed /\ ~writers[q].existed)
            => /\ (writers[w].ret = None) # (writers[q].ret = None)
               /\ Cardinality({i \in 1..Len(raw_items) :
                       /\ raw_items[i].source = writers[w].source
                       /\ raw_items[i].url = writers[w].url}) = 1

\* two overlapping inserts of one pair that was not stored have both
\* returned, one with the id of the stored row and one with None
C28_Witness ==
    \E w \in Writers : \E q \in Writers \ {w} :
        /\ RacedForPair(w, q)
        /\ ~writers[w].existed /\ ~writers[q].existed
        /\ writers[w].ret # None /\ writers[q].ret = None
        /\ RawGetById(raw_items, writers[w].ret).title = writers[w].title
        /\ writers[w].title # writers[q].title

====
